---- MODULE Spec2Model ----
(***************************************************************************)
(* Whisper transcription front end: the streaming review client            *)
(* (services/api.js, aiReviewStream), the sliding-window reconciliation of *)
(* the editor (App.jsx, TranscriptionEditor.jsx) and the recording session *)
(* controller (services/websocket.js, components/AudioRecorder).           *)
(*                                                                         *)
(* Text is a sequence of one-character strings; " " is the space.          *)
(***************************************************************************)
EXTENDS Integers, Sequences, FiniteSets, TLC

\* ------------------------------------------------------------------ bounds
\* chunk indices the rewrite backend may use are 0..MaxChunks-1
MaxChunks == 3
\* events the rewrite backend emits during one review job
MaxEvents == 4
\* events written by the backend and not yet read by the client
MaxWire == 1
\* longest text App accumulates in transcriptionData during one recording
MaxText == 5
\* longest editor document
MaxDoc == 5
\* segments App accumulates in transcriptionData
MaxSegs == 3
\* user operations (record, stop, select, save, delete, clear, retitle) per run
MaxOps == 3
\* calls of wsClient.connect() in one page session (one transport each)
MaxConn == 3
\* recordings started in one page session
MaxRec == 2
\* audio chunks one recording captures, the chunk flushed by stop() included
MaxAudio == 2
\* polls of the start-up readiness loop explored (the code polls up to 20 times)
MaxRetries == 1
\* reconnect timers of the resume-target effect pending at the same time
MaxPending == 1
\* failures injected by the environment: transport errors and losses, backend
\* error messages, connect timeouts, a refused microphone
MaxFaults == 1
\* actions of the user and of the parent component in one page session
MaxUser == 3
\* largest small word count of a text handed to aiReview
MaxWords == 30
\* largest chunk size (contextWords) a caller of aiReview passes
MaxContext == 3
\* transcriptions ever created in the store
MaxTranscriptions == 1
\* diffs ever stored
MaxDiffs == 3
\* update requests in flight at the same time
MaxClients == 2

Space == " "

\* ------------------------------------------------------------------ state
VARIABLES
  \* --- review job (api.js aiReviewStream) ---
  rvPhase,        \* "fetching" | "streaming" | "returned": where processStream is
  wire,           \* lines the backend wrote that no read() has returned yet
  buffer,         \* TRUE when `buffer` holds the first part of the line at the head of wire
  backendClosed,  \* the backend ended the response body
  emitted,        \* number of events the backend wrote
  chunkResults,   \* the sparse array chunkResults: index -> [has, val]
  outcome,        \* state of the promise: "pending" | "resolved" | "rejected"
  resultText,     \* value the promise resolved with
  rejectMsg,      \* message of the Error the promise rejected with
  settledBy,      \* which statement settled the promise
  progCount,      \* history: 'progress' events dispatched per chunk_index (capped at 2)
  lastRes,        \* history: chunk_result of the last 'progress' dispatched per index
  outOfOrder,     \* history: a 'progress' was dispatched after one with a larger index
  afterTerminal,  \* history: an event was dispatched after 'complete' or 'error'
  \* --- App.jsx / TranscriptionEditor.jsx ---
  transcriptionData,      \* App state: null or {text, segments, final}
  selectedTranscription,  \* App state: null or the loaded saved transcription
  isRecording,            \* App state
  appCrashed,             \* a state updater threw a TypeError
  title,                  \* editor state `title`
  doc,                    \* text content of the TipTap editor
  lastTextRef,            \* lastTextRef.current
  justLoaded,             \* justLoadedTranscriptionRef.current
  epoch,                  \* history of the results received since recording last started
  afterReset,             \* history: the tracker was reset by a shorter string
  recovered,              \* history: the string reconciled next after such a reset
  finalNote,              \* history: what the empty final results received did
  userOps,                \* user operations performed so far
  \* --- websocket.js wsClient / AudioRecorder ---
  wsClient,       \* the singleton: ws, isConnected, modelReady, selectedModel
  transports,     \* every WebSocket created by connect(), with the backend's side of it
  attempts,       \* every connect() call: its promise, one-time handlers and timeout
  recorder,       \* AudioRecorder state, refs, props and the position of startRecording
  timers,         \* pending setTimeout callbacks of the recorder, in the order they were set
  hist,           \* history of the frames sent and of the messages received
  \* --- api.js transcriptionAPI.aiReview ---
  reviewCall,     \* the last aiReview request: its inputs, its timeout and its state
  \* --- the store behind transcriptionAPI.create / update / delete ---
  transcriptions,          \* table transcriptions: the live rows
  transcription_diffs,     \* table transcription_diffs
  deleted_transcriptions,  \* table deleted_transcriptions
  serial,                  \* the SERIAL counters of the two id columns and NOW()
  requests,                \* the update request of each client and its answer
  storeHist                \* history: the text and the time each transcription was created with

rvVars == <<rvPhase, wire, buffer, backendClosed, emitted, chunkResults, outcome,
            resultText, rejectMsg, settledBy, progCount, lastRes, outOfOrder,
            afterTerminal>>

edVars == <<transcriptionData, selectedTranscription, isRecording, appCrashed, title,
            doc, lastTextRef, justLoaded, epoch, afterReset, recovered, finalNote, userOps>>

ssVars == <<wsClient, transports, attempts, recorder, timers, hist>>

arVars == <<reviewCall>>

stVars == <<transcriptions, transcription_diffs, deleted_transcriptions, serial,
            requests, storeHist>>

vars == <<rvVars, edVars, ssVars, arVars, stVars>>

\* what each part of the program leaves alone
notReview == <<edVars, ssVars, arVars, stVars>>
notEditor == <<rvVars, ssVars, arVars, stVars>>
notSession == <<rvVars, edVars, arVars, stVars>>
notAiReview == <<rvVars, edVars, ssVars, stVars>>
notStore == <<rvVars, edVars, ssVars, arVars>>

\* =====================================================================
\* Streaming review client
\* =====================================================================
ChunkIdx == 0 .. (MaxChunks - 1)
\* total_chunks of the job, as the backend announces it in 'start' and in every
\* 'progress' event; the client passes it to the callbacks and never reads it.
\* The indices of the job are 0 .. TotalChunks - 1, index TotalChunks is outside.
TotalChunks == MaxChunks - 1
Results == {<<"x">>, <<"y">>}
BackendErrorMessage == "chunk failed"

NoEvent == [type |-> "null", chunk_index |-> 0 - 1, chunk_result |-> <<>>]

SimpleEvent(t) == [type |-> t, chunk_index |-> 0 - 1, chunk_result |-> <<>>]

ProgressEvent(i, r) == [type |-> "progress", chunk_index |-> i, chunk_result |-> r]

\* what the backend may write: any event, in any order
Events ==
  {SimpleEvent(t) : t \in {"start", "processing", "complete", "error"}}
    \cup {ProgressEvent(i, r) : i \in ChunkIdx, r \in Results}

\* one SSE event on the wire: "event: <type>\n" "data: <json>\n" "\n"
EventLines(e) ==
  << [k |-> "event", ev |-> SimpleEvent(e.type)],
     [k |-> "data", ev |-> e],
     [k |-> "blank", ev |-> NoEvent] >>

EmptyResults == [i \in ChunkIdx |-> [has |-> FALSE, val |-> <<>>]]

\* chunkResults.length: one more than the largest index assigned
ArrayLength(cr) ==
  IF \A i \in ChunkIdx : ~cr[i].has THEN 0
  ELSE 1 + (CHOOSE i \in ChunkIdx : cr[i].has /\ \A j \in ChunkIdx : cr[j].has => j <= i)

\* Array.prototype.join(' ') over indices from..len-1: a hole contributes ''
RECURSIVE JoinFrom(_, _, _)
JoinFrom(cr, from, len) ==
  IF from >= len THEN <<>>
  ELSE (IF cr[from].has THEN cr[from].val ELSE <<>>)
         \o (IF from + 1 < len THEN <<Space>> ELSE <<>>)
         \o JoinFrom(cr, from + 1, len)

Join(cr) == JoinFrom(cr, 0, ArrayLength(cr))

\* resolve(v) / reject(e) of the promise: only the first call settles it
Resolve(st, text, by) ==
  IF st.outcome = "pending"
  THEN [st EXCEPT !.outcome = "resolved", !.resultText = text, !.settledBy = by]
  ELSE st

Reject(st, msg, by) ==
  IF st.outcome = "pending"
  THEN [st EXCEPT !.outcome = "rejected", !.rejectMsg = msg, !.settledBy = by]
  ELSE st

Cap2(n) == IF n >= 2 THEN 2 ELSE n

\* mutant: chunkResults.push(data.chunk_result), placement by arrival
StoreChunk_Push(cr, data) ==
  IF ArrayLength(cr) < MaxChunks
  THEN [cr EXCEPT ![ArrayLength(cr)] = [has |-> TRUE, val |-> data.chunk_result]]
  ELSE cr

\* chunkResults[data.chunk_index] = data.chunk_result
StoreChunk(cr, data) ==
  [cr EXCEPT ![data.chunk_index] = [has |-> TRUE, val |-> data.chunk_result]]

\* history kept beside the switch: what was dispatched, not used by the client
Note(eventType, data, st) ==
  LET st1 == [st EXCEPT !.afterTerminal = @ \/ st.settledBy \in {"complete", "error"}] IN
  IF eventType = "progress"
  THEN [st1 EXCEPT !.progCount[data.chunk_index] = Cap2(@ + 1),
                   !.lastRes[data.chunk_index] = data.chunk_result,
                   !.outOfOrder = @ \/ \E j \in ChunkIdx :
                                         j > data.chunk_index /\ st.progCount[j] > 0]
  ELSE st1

\* case 'progress'
OnProgress(st, data) ==
  [st EXCEPT !.chunkResults = StoreChunk(st.chunkResults, data)]

\* case 'complete': resolve(chunkResults.join(' ')); return
OnComplete(st) ==
  [Resolve(st, Join(st.chunkResults), "complete") EXCEPT !.returned = TRUE]

\* mutant: `break` instead of `return` after reject
OnError_NoReturn(st) ==
  Reject(st, BackendErrorMessage, "error")

\* case 'error': reject(new Error(data.message)); return
OnError(st) ==
  [Reject(st, BackendErrorMessage, "error") EXCEPT !.returned = TRUE]

\* the switch (eventType) of processStream
Dispatch(eventType, data, st0) ==
  LET st == Note(eventType, data, st0) IN
  CASE eventType = "progress" -> OnProgress(st, data)
    [] eventType = "complete" -> OnComplete(st)
    [] eventType = "error" -> OnError(st)
    [] OTHER -> st

\* for (const line of lines): eventType is local to one read
RECURSIVE ProcessLines(_, _, _)
ProcessLines(lines, eventType, st) ==
  IF lines = <<>> \/ st.returned THEN st
  ELSE LET line == Head(lines) IN
       IF line.k = "event"
       THEN ProcessLines(Tail(lines), line.ev.type, st)
       ELSE IF line.k = "data" /\ eventType # "null"
       THEN ProcessLines(Tail(lines), "null", Dispatch(eventType, line.ev, st))
       ELSE ProcessLines(Tail(lines), eventType, st)

ReviewState ==
  [chunkResults |-> chunkResults, outcome |-> outcome, resultText |-> resultText,
   rejectMsg |-> rejectMsg, settledBy |-> settledBy, progCount |-> progCount,
   lastRes |-> lastRes, outOfOrder |-> outOfOrder, afterTerminal |-> afterTerminal,
   returned |-> FALSE]

SetReviewState(st) ==
  /\ chunkResults' = st.chunkResults
  /\ outcome' = st.outcome
  /\ resultText' = st.resultText
  /\ rejectMsg' = st.rejectMsg
  /\ settledBy' = st.settledBy
  /\ progCount' = st.progCount
  /\ lastRes' = st.lastRes
  /\ outOfOrder' = st.outOfOrder
  /\ afterTerminal' = st.afterTerminal

InitReview ==
  /\ rvPhase = "fetching"
  /\ wire = <<>>
  /\ buffer = FALSE
  /\ backendClosed = FALSE
  /\ emitted = 0
  /\ chunkResults = EmptyResults
  /\ outcome = "pending"
  /\ resultText = <<>>
  /\ rejectMsg = ""
  /\ settledBy = "none"
  /\ progCount = [i \in ChunkIdx |-> 0]
  /\ lastRes = [i \in ChunkIdx |-> <<>>]
  /\ outOfOrder = FALSE
  /\ afterTerminal = FALSE

\* fetch resolved with response.ok: the reader is taken, processStream starts
ResponseOk ==
  /\ UNCHANGED notReview
  /\ rvPhase = "fetching"
  /\ rvPhase' = "streaming"
  /\ UNCHANGED <<wire, buffer, backendClosed, emitted, chunkResults, outcome,
                 resultText, rejectMsg, settledBy, progCount, lastRes, outOfOrder, afterTerminal>>

\* fetch rejected, or !response.ok: the promise rejects through .catch(reject)
ResponseFailed ==
  /\ UNCHANGED notReview
  /\ rvPhase = "fetching"
  /\ rvPhase' = "returned"
  /\ SetReviewState(Reject(ReviewState, "HTTP error", "fetch"))
  /\ UNCHANGED <<wire, buffer, backendClosed, emitted>>

\* the backend writes one event
BackendEmit(e) ==
  /\ UNCHANGED notReview
  /\ rvPhase = "streaming"
  /\ ~backendClosed
  /\ emitted < MaxEvents
  /\ Len(wire) + 3 <= 3 * MaxWire
  /\ wire' = wire \o EventLines(e)
  /\ emitted' = emitted + 1
  /\ UNCHANGED <<rvPhase, buffer, backendClosed, chunkResults, outcome, resultText,
                 rejectMsg, settledBy, progCount, lastRes, outOfOrder, afterTerminal>>

\* the backend (or the transport) ends the response body
BackendClose ==
  /\ UNCHANGED notReview
  /\ rvPhase = "streaming"
  /\ ~backendClosed
  /\ backendClosed' = TRUE
  /\ UNCHANGED <<rvPhase, wire, buffer, emitted, chunkResults, outcome, resultText,
                 rejectMsg, settledBy, progCount, lastRes, outOfOrder, afterTerminal>>

\* one reader.read() returning a value: k lines are completed by it, and `part`
\* says whether it ends inside the next line (kept in buffer by lines.pop())
ReadChunk(k, part) ==
  /\ UNCHANGED notReview
  /\ rvPhase = "streaming"
  /\ k \in 0 .. Len(wire)
  /\ part => k < Len(wire)
  /\ k > 0 \/ (part /\ ~buffer)
  /\ LET st == ProcessLines(SubSeq(wire, 1, k), "null", ReviewState) IN
       /\ SetReviewState(st)
       /\ rvPhase' = IF st.returned THEN "returned" ELSE "streaming"
       \* after return nothing reads the body any more
       /\ wire' = IF st.returned THEN <<>> ELSE SubSeq(wire, k + 1, Len(wire))
       /\ buffer' = IF st.returned THEN FALSE ELSE part
  /\ UNCHANGED <<backendClosed, emitted>>

\* reader.read() returns done: the loop breaks and the tail of processStream runs
ReadDone ==
  /\ UNCHANGED notReview
  /\ rvPhase = "streaming"
  /\ backendClosed
  /\ wire = <<>> \/ buffer
  /\ rvPhase' = "returned"
  /\ SetReviewState(
       IF ArrayLength(chunkResults) > 0
       THEN Resolve(ReviewState, Join(chunkResults), "eof")
       ELSE Reject(ReviewState, "Stream ended without results", "eof"))
  /\ wire' = <<>>
  /\ buffer' = FALSE
  /\ UNCHANGED <<backendClosed, emitted>>

\* reader.read() rejects (the channel is aborted): processStream().catch(reject)
ReadFailed ==
  /\ UNCHANGED notReview
  /\ rvPhase = "streaming"
  /\ rvPhase' = "returned"
  /\ SetReviewState(Reject(ReviewState, "network error", "readfail"))
  /\ wire' = <<>>
  /\ buffer' = FALSE
  /\ UNCHANGED <<backendClosed, emitted>>

NextReview ==
  \/ ResponseOk
  \/ ResponseFailed
  \/ \E e \in Events : BackendEmit(e)
  \/ BackendClose
  \/ \E k \in 0 .. (3 * MaxWire), part \in BOOLEAN : ReadChunk(k, part)
  \/ ReadDone
  \/ ReadFailed

\* =====================================================================
\* App.handleTranscription and the editor's reconciliation effects
\* =====================================================================
\* text portions a 'transcription' message may carry
MsgTexts == {<<>>, <<"a">>, <<"b">>, <<"a", "b">>}
\* segment lists a 'transcription' message may carry (texts of the segments)
MsgSegments == {<<>>, << <<"a">> >>}

Messages == [text : MsgTexts, segments : MsgSegments, final : BOOLEAN]

\* transcriptionData = null
NullData == [isNull |-> TRUE, hasText |-> FALSE, text |-> <<>>, segments |-> <<>>,
             final |-> FALSE]

\* selectedTranscription = null
NullSelection == [isNull |-> TRUE, id |-> 0, content_md |-> <<>>,
                  current_content_md |-> <<>>, title |-> ""]

Saved(id, content, current, t) ==
  [isNull |-> FALSE, id |-> id, content_md |-> content, current_content_md |-> current,
   title |-> t]

\* saved transcriptions offered by the selector
SavedDocs == {Saved(1, <<"d">>, <<"d", "e">>, "t1"), Saved(2, <<>>, <<>>, "")}

\* a JS string used as a condition: '' is falsy
Truthy(str) == str # <<>>

\* text.trim() is not empty
HasContent(str) == \E i \in 1 .. Len(str) : str[i] # Space

\* prev.text + (prev.text && data.text ? ' ' : '') + (data.text || '')
AppendText(prevText, dataText) ==
  prevText \o (IF Truthy(prevText) /\ Truthy(dataText) THEN <<Space>> ELSE <<>>) \o dataText

\* the updater of setTranscriptionData for a result with segments
Accumulate(prev, data) ==
  IF prev.isNull
  THEN [isNull |-> FALSE, hasText |-> TRUE, text |-> data.text,
        segments |-> data.segments, final |-> data.final]
  ELSE [isNull |-> FALSE, hasText |-> TRUE, text |-> AppendText(prev.text, data.text),
        segments |-> prev.segments \o data.segments, final |-> data.final]

\* mutant: an empty final result is dropped
MarkFinal_Dropped(prev) == prev

\* the updater for an empty final result: {...prev, final: true}, an object even when
\* prev is null
MarkFinal(prev) == [prev EXCEPT !.isNull = FALSE, !.final = TRUE]

\* [...prev.segments, ...] when prev is {final: true} only: a TypeError
AccumulateThrows(prev, data) ==
  Len(data.segments) > 0 /\ ~prev.isNull /\ ~prev.hasText

\* App.handleTranscription: the next transcriptionData
HandleTranscription(prev, data) ==
  IF Len(data.segments) > 0 THEN Accumulate(prev, data)
  ELSE IF data.final THEN MarkFinal(prev)
  ELSE prev

\* does handleTranscription call setTranscriptionData at all
SetsData(data) == Len(data.segments) > 0 \/ data.final

\* segments.map(seg => seg.text).join(' ')
RECURSIVE JoinSegments(_)
JoinSegments(segs) ==
  IF segs = <<>> THEN <<>>
  ELSE IF Len(segs) = 1 THEN segs[1]
  ELSE segs[1] \o <<Space>> \o JoinSegments(Tail(segs))

\* let fullText = text || markdown || ''; if (!fullText && segments) ...
FullText(td) ==
  IF td.hasText /\ Truthy(td.text) THEN td.text ELSE JoinSegments(td.segments)

\* the editor as one record: refs, state and the history kept beside them
EditorState ==
  [doc |-> doc, last |-> lastTextRef, just |-> justLoaded, title |-> title,
   afterReset |-> afterReset, recovered |-> recovered, finalNote |-> finalNote]

NoRecovery == [done |-> FALSE, kept |-> TRUE, appended |-> TRUE]

NoFinal == [seen |-> FALSE, finalized |-> TRUE, textKept |-> TRUE]

\* a result with the final marker, no segments and no text
EmptyFinal(data) == data.final /\ data.segments = <<>> /\ data.text = <<>>

\* history: what handling the result `data` did to transcriptionData (prev -> td)
NoteFinal(es, prev, td, data) ==
  IF EmptyFinal(data)
  THEN [es EXCEPT !.finalNote =
          [seen |-> TRUE,
           finalized |-> @.finalized /\ td.final,
           textKept |-> @.textKept /\ td.text = prev.text /\ td.segments = prev.segments]]
  ELSE es

IsPrefix(a, b) == Len(a) <= Len(b) /\ SubSeq(b, 1, Len(a)) = a

IsSuffix(a, b) == Len(a) <= Len(b) /\ SubSeq(b, Len(b) - Len(a) + 1, Len(b)) = a

\* history: the string reconciled right after a reset of the tracker
NoteRecovery(es0, es, fullText) ==
  IF es0.afterReset
  THEN [es EXCEPT !.afterReset = FALSE,
                  !.recovered = [done |-> TRUE,
                                 kept |-> IsPrefix(es0.doc, es.doc),
                                 appended |-> /\ IsSuffix(fullText, es.doc)
                                              /\ Len(es.doc) >= Len(es0.doc) + Len(fullText)]]
  ELSE es

\* first text of a session: appended to a loaded transcription, else it is the content
FirstChunk(es, fullText, sel) ==
  [es EXCEPT !.doc = IF ~sel.isNull THEN es.doc \o <<Space>> \o fullText ELSE fullText,
             !.last = fullText]

\* mutant: the whole cumulative text is inserted again
AppendNewContent_Whole(es, fullText) ==
  [es EXCEPT !.doc = es.doc \o fullText, !.last = fullText]

\* fullText.substring(lastTextRef.current.length) is inserted at the end
AppendNewContent(es, fullText) ==
  [es EXCEPT !.doc = es.doc \o SubSeq(fullText, Len(es.last) + 1, Len(fullText)),
             !.last = fullText]

\* "Text is shorter - new recording session starting"
WindowReset(es) ==
  [es EXCEPT !.last = <<>>, !.afterReset = TRUE]

\* the body of `if (fullText && fullText !== lastTextRef.current)`
Reconcile(es, fullText, sel) ==
  IF ~Truthy(es.last) THEN NoteRecovery(es, FirstChunk(es, fullText, sel), fullText)
  ELSE IF Len(fullText) > Len(es.last)
  THEN NoteRecovery(es, AppendNewContent(es, fullText), fullText)
  ELSE WindowReset(es)

\* the transcriptionData effect; renderTitle is `title` of the render that runs it
DataEffect(es, td, sel, renderTitle) ==
  IF es.just THEN [es EXCEPT !.just = FALSE]
  ELSE IF td.isNull THEN es
  ELSE LET fullText == FullText(td)
           es1 == IF Truthy(fullText) /\ fullText # es.last
                  THEN Reconcile(es, fullText, sel)
                  ELSE es
       IN IF renderTitle = "" THEN [es1 EXCEPT !.title = "gen"] ELSE es1

\* the selectedTranscription effect
SelectionEffect(es, sel) ==
  IF ~sel.isNull
  THEN [es EXCEPT !.doc = sel.content_md, !.last = <<>>, !.just = TRUE,
                  !.title = sel.title, !.afterReset = FALSE]
  ELSE [es EXCEPT !.doc = <<>>, !.last = <<>>, !.just = FALSE, !.title = "",
                  !.afterReset = FALSE]

\* renders that follow while `title` keeps changing: the data effect runs again
RECURSIVE Settle(_, _, _, _)
Settle(es, td, sel, prevTitle) ==
  IF es.title = prevTitle THEN es
  ELSE Settle(DataEffect(es, td, sel, es.title), td, sel, es.title)

\* one commit: the effects whose dependencies changed, in declaration order
Render(es, td, sel, dataChanged, selChanged) ==
  LET e1 == IF dataChanged \/ selChanged THEN DataEffect(es, td, sel, es.title) ELSE es
      e2 == IF selChanged THEN SelectionEffect(e1, sel) ELSE e1
  IN Settle(e2, td, sel, es.title)

SetEditorState(es) ==
  /\ doc' = es.doc
  /\ lastTextRef' = es.last
  /\ justLoaded' = es.just
  /\ title' = es.title
  /\ afterReset' = es.afterReset
  /\ recovered' = es.recovered
  /\ finalNote' = es.finalNote

NoEpoch == [clean |-> FALSE, count |-> 0, cumulative |-> TRUE, lastText |-> <<>>,
            expected |-> <<>>]

\* history: one more result received in the current recording
NoteMessage(ep, data) ==
  IF ep.clean /\ Truthy(data.text) /\ Len(data.segments) > 0
  THEN LET cumulative == ep.cumulative /\ IsPrefix(ep.lastText, data.text)
       IN [clean |-> TRUE,
           count |-> IF ep.count >= 3 THEN 3 ELSE ep.count + 1,
           cumulative |-> cumulative,
           lastText |-> IF cumulative THEN data.text ELSE <<>>,
           expected |-> IF ep.count = 0 THEN data.text
                        ELSE ep.expected \o <<Space>> \o data.text]
  ELSE NoEpoch

InitEditor ==
  /\ transcriptionData = NullData
  /\ selectedTranscription = NullSelection
  /\ isRecording = FALSE
  /\ appCrashed = FALSE
  /\ title = ""
  /\ doc = <<>>
  /\ lastTextRef = <<>>
  /\ justLoaded = FALSE
  /\ epoch = NoEpoch
  /\ afterReset = FALSE
  /\ recovered = NoRecovery
  /\ finalNote = NoFinal
  /\ userOps = 0

\* App.handleRecordingStateChange(recording), called by the recorder
RecordingStateChange(recording) ==
  /\ ~appCrashed
  /\ userOps < MaxOps
  /\ userOps' = userOps + 1
  /\ recording # isRecording
  /\ isRecording' = recording
  /\ transcriptionData' = IF recording THEN NullData ELSE transcriptionData
  /\ LET es == Render(EditorState, transcriptionData', selectedTranscription,
                      transcriptionData' # transcriptionData, FALSE)
     IN /\ SetEditorState(es)
        /\ epoch' = IF recording
                    THEN [NoEpoch EXCEPT !.clean = /\ es.last = <<>>
                                                   /\ ~es.just
                                                   /\ selectedTranscription.isNull]
                    ELSE epoch
  /\ UNCHANGED <<selectedTranscription, appCrashed>>
  /\ UNCHANGED notEditor

\* a 'transcription' message reaches App.handleTranscription
ReceiveTranscription(data) ==
  /\ ~appCrashed
  /\ UNCHANGED userOps
  /\ ~AccumulateThrows(transcriptionData, data)
  /\ LET td == HandleTranscription(transcriptionData, data)
         es == NoteFinal(Render(EditorState, td, selectedTranscription, SetsData(data),
                                FALSE),
                         transcriptionData, td, data)
     IN /\ Len(td.text) <= MaxText
        /\ Len(td.segments) <= MaxSegs
        /\ Len(es.doc) <= MaxDoc
        /\ transcriptionData' = td
        /\ SetEditorState(es)
  /\ epoch' = NoteMessage(epoch, data)
  /\ UNCHANGED <<selectedTranscription, isRecording, appCrashed>>
  /\ UNCHANGED notEditor

\* a result with segments arrives after an empty final one: the updater throws
ReceiveTranscriptionThrows(data) ==
  /\ ~appCrashed
  /\ AccumulateThrows(transcriptionData, data)
  /\ appCrashed' = TRUE
  /\ UNCHANGED userOps
  /\ UNCHANGED <<transcriptionData, selectedTranscription, isRecording, title, doc,
                 lastTextRef, justLoaded, epoch, afterReset, recovered, finalNote>>
  /\ UNCHANGED notEditor

\* App.handleTranscriptionSelect(transcription)
SelectTranscription(t) ==
  /\ ~appCrashed
  /\ userOps < MaxOps
  /\ userOps' = userOps + 1
  /\ ~isRecording
  /\ selectedTranscription' = t
  /\ transcriptionData' =
       IF t.isNull THEN NullData
       ELSE [isNull |-> FALSE, hasText |-> TRUE,
             text |-> IF Truthy(t.current_content_md) THEN t.current_content_md
                      ELSE t.content_md,
             segments |-> <<>>, final |-> TRUE]
  /\ SetEditorState(Render(EditorState, transcriptionData', t,
                           transcriptionData' # transcriptionData \/ ~t.isNull,
                           t # selectedTranscription \/ ~t.isNull))
  /\ epoch' = NoEpoch
  /\ UNCHANGED <<isRecording, appCrashed>>
  /\ UNCHANGED notEditor

\* handleConfirmSave succeeded: setTitle(proposedSummary), App.handleSave(result)
SaveTranscription ==
  /\ ~appCrashed
  /\ userOps < MaxOps
  /\ userOps' = userOps + 1
  /\ HasContent(doc)
  /\ selectedTranscription' =
       Saved(IF selectedTranscription.isNull THEN 3 ELSE selectedTranscription.id,
             doc, doc, "t1")
  /\ SetEditorState(Render([EditorState EXCEPT !.title = "t1"], transcriptionData,
                           selectedTranscription', FALSE, TRUE))
  /\ epoch' = NoEpoch
  /\ UNCHANGED <<transcriptionData, isRecording, appCrashed>>
  /\ UNCHANGED notEditor

\* handleDeleteClick succeeded: App.handleDelete()
DeleteTranscription ==
  /\ ~appCrashed
  /\ userOps < MaxOps
  /\ userOps' = userOps + 1
  /\ ~selectedTranscription.isNull
  /\ ~isRecording
  /\ selectedTranscription' = NullSelection
  /\ transcriptionData' = NullData
  /\ SetEditorState(Render(EditorState, NullData, NullSelection,
                           ~transcriptionData.isNull, TRUE))
  /\ epoch' = NoEpoch
  /\ UNCHANGED <<isRecording, appCrashed>>
  /\ UNCHANGED notEditor

\* handleClear: setContent(''), setTitle('')
ClearEditor ==
  /\ ~appCrashed
  /\ userOps < MaxOps
  /\ userOps' = userOps + 1
  /\ SetEditorState(Settle([EditorState EXCEPT !.doc = <<>>, !.title = "",
                                               !.afterReset = FALSE],
                           transcriptionData, selectedTranscription, title))
  /\ epoch' = NoEpoch
  /\ UNCHANGED <<transcriptionData, selectedTranscription, isRecording, appCrashed>>
  /\ UNCHANGED notEditor

\* the title input: setTitle(e.target.value)
EditTitle(t) ==
  /\ ~appCrashed
  /\ userOps < MaxOps
  /\ userOps' = userOps + 1
  /\ t # title
  /\ SetEditorState(Settle([EditorState EXCEPT !.title = t], transcriptionData,
                           selectedTranscription, title))
  /\ UNCHANGED <<transcriptionData, selectedTranscription, isRecording, appCrashed, epoch>>
  /\ UNCHANGED notEditor

NextEditor ==
  \/ \E recording \in BOOLEAN : RecordingStateChange(recording)
  \/ \E data \in Messages : ReceiveTranscription(data)
  \/ \E data \in Messages : ReceiveTranscriptionThrows(data)
  \/ \E t \in SavedDocs \cup {NullSelection} : SelectTranscription(t)
  \/ SaveTranscription
  \/ DeleteTranscription
  \/ ClearEditor
  \/ \E t \in {"", "t1"} : EditTitle(t)

\* =====================================================================
\* websocket.js TranscriptionWebSocket (the singleton wsClient)
\* =====================================================================
Models == {"tiny", "base"}
DefaultModel == "tiny"

ConnIds == 1 .. MaxConn
\* this.ws = null
NoTransport == 0

\* messages of the backend that carry no readiness
Advisory == {"status", "download_progress", "processing_audio"}

\* a WebSocket nobody created yet
NoSocket == [state |-> "none", failing |-> FALSE, gotSetModel |-> FALSE,
             readySent |-> FALSE, ended |-> FALSE, asked |-> "", first |-> "none",
             firstModel |-> ""]

\* a connect() call that has not happened yet
NoAttempt == [origin |-> "none", status |-> "none", handlers |-> FALSE, timer |-> FALSE]

\* a frame handed to ws.send; rec and idx identify an audio chunk or an end of recording
Frame(type, by, rec, idx) == [type |-> type, by |-> by, rec |-> rec, idx |-> idx]

ResumeTypes == {"set_resume_transcription", "set_resume_audio"}

\* the session as one record, so that a handler can be written as a function of it
Session ==
  [c |-> wsClient, tr |-> transports, at |-> attempts, r |-> recorder, tm |-> timers,
   h |-> hist]

\* a reconnect started by the resume-target effect has not reached model_ready
CycleIncomplete(s) ==
  \/ \E i \in 1 .. Len(s.tm) : s.tm[i].kind = "effect"
  \/ \E a \in ConnIds : s.at[a].origin = "effect" /\ s.at[a].status = "pending"

\* history of a frame accepted by an open transport
NoteFrame(s, f) ==
  LET mine == f.rec = s.r.recNo
      h1 == IF f.by = "start" /\ f.type # "audio_chunk"
            THEN [s.h EXCEPT !.startFrames = Append(@, f.type)]
            ELSE s.h
      h2 == IF f.type = "audio_chunk" /\ mine
            THEN [h1 EXCEPT !.recLog = Append(@, f.idx),
                            !.startFrames =
                               IF \E i \in 1 .. Len(@) : @[i] = "audio_chunk" THEN @
                               ELSE Append(@, "audio_chunk")]
            ELSE h1
      h3 == IF f.type = "audio_chunk" /\ CycleIncomplete(s)
            THEN [h2 EXCEPT !.audioDuringSwitch = TRUE]
            ELSE h2
      h4 == IF f.type = "audio_chunk" /\ ~s.tr[s.c.ws].readySent
            THEN [h3 EXCEPT !.audioBeforeReady = TRUE]
            ELSE h3
      \* audio of a recording started without audio to resume, on a transport
      \* that existed before the start or has not sent model_ready
      h5 == IF f.type = "audio_chunk" /\ mine /\ s.r.ctx.fresh
               /\ (s.c.ws <= s.h.startCreated \/ ~s.tr[s.c.ws].readySent)
            THEN [h4 EXCEPT !.freshReused = TRUE]
            ELSE h4
  IN IF f.type = "end_recording" /\ mine
     THEN [h5 EXCEPT !.recLog = Append(@, 0)]
     ELSE h5

\* the backend's side of a transport takes a frame; model: the model a set_model
\* frame carries
BackendReceives(sock, f, model) ==
  LET s1 == IF sock.first # "none" THEN sock
            ELSE [sock EXCEPT !.first = f.type,
                              !.firstModel = IF f.type = "set_model" THEN model ELSE ""]
  IN CASE f.type = "set_model" -> [s1 EXCEPT !.gotSetModel = TRUE]
       [] f.type = "end_recording" -> [s1 EXCEPT !.ended = TRUE]
       [] OTHER -> s1

\* this.ws.send(JSON.stringify(message)); threw: the call raised an exception
RawSend(s, f) ==
  LET t == s.c.ws IN
  IF t = NoTransport THEN [s |-> s, threw |-> TRUE]
  ELSE IF s.tr[t].state = "connecting" THEN [s |-> s, threw |-> TRUE]
  ELSE IF s.tr[t].state = "open"
  THEN [s |-> [s EXCEPT !.tr[t] = BackendReceives(@, f, s.c.selectedModel),
                        !.h = NoteFrame(s, f)],
        threw |-> FALSE]
  ELSE [s |-> s, threw |-> FALSE]

\* the send methods: if (!this.isConnected || !this.ws) return; this.ws.send(...)
GuardedSend(s, f) ==
  IF ~s.c.isConnected \/ s.c.ws = NoTransport
  THEN [s |-> s, threw |-> FALSE]
  ELSE RawSend(s, f)

\* number of WebSockets created so far
Created(s) == Cardinality({t \in ConnIds : s.tr[t].state # "none"})

\* connect(model) up to the return of the promise; the new transport is Created(s) + 1
Connect(s, model, origin) ==
  LET n == Created(s) + 1 IN
  [s EXCEPT !.c.selectedModel = model,
            !.c.modelReady = FALSE,
            !.c.ws = n,
            !.tr[n] = [NoSocket EXCEPT !.state = "connecting", !.asked = model],
            !.at[n] = [origin |-> origin, status |-> "pending", handlers |-> TRUE,
                       timer |-> TRUE]]

\* disconnect()
Disconnect(s) ==
  LET t == s.c.ws IN
  IF t = NoTransport THEN s
  ELSE [s EXCEPT !.tr[t] = IF @.state \in {"connecting", "open"}
                           THEN [NoSocket EXCEPT
                                   !.state = "closing",
                                   !.failing = (s.tr[t].state = "connecting")]
                           ELSE @,
                 !.c.ws = NoTransport,
                 !.c.isConnected = FALSE]

\* ---------------------------------------------------------------------
\* AudioRecorder: what follows `await wsClient.connect(...)`
\* ---------------------------------------------------------------------
Timer(kind, dur, model, rec) == [kind |-> kind, dur |-> dur, model |-> model, rec |-> rec]

AddTimer(s, tmr) == [s EXCEPT !.tm = Append(@, tmr)]

\* the catch block of startRecording
Abort(s) ==
  [s EXCEPT !.r.isConnecting = FALSE, !.r.isRecording = FALSE, !.r.pc = "idle"]

Ready(s) == s.c.isConnected /\ s.c.modelReady

\* mutant: the language is sent before the channel
StartDirectives_Swapped == <<"set_language", "set_channel">>

\* wsClient.setChannel(selectedChannel); wsClient.setLanguage(languageCode)
StartDirectives == <<"set_channel", "set_language">>

\* the two sends after the readiness loop, then the 200 ms wait
SendStartDirectives(s) ==
  LET a == GuardedSend(s, Frame(StartDirectives[1], "start", s.r.recNo, 0))
      b == GuardedSend(a.s, Frame(StartDirectives[2], "start", s.r.recNo, 0))
  IN IF a.threw THEN Abort(a.s)
     ELSE IF b.threw THEN Abort(b.s)
     ELSE AddTimer([b.s EXCEPT !.r.pc = "wait200"], Timer("wait200", 200, "", 0))

\* while ((!isConnected || !modelReady) && retries < 20) await 100 ms
StartPoll(s) ==
  IF Ready(s) THEN SendStartDirectives(s)
  ELSE IF s.r.retries < MaxRetries
  THEN AddTimer([s EXCEPT !.r.pc = "retry"], Timer("retry", 100, "", 0))
  ELSE Abort(s)

\* if (!wsClient.isConnected || !wsClient.modelReady) await wsClient.connect(selectedModel)
StartConnect(s) ==
  IF ~Ready(s)
  THEN [Connect(s, s.r.ctx.model, "start") EXCEPT !.r.pc = "connect",
                                                   !.r.att = Created(s) + 1]
  ELSE StartPoll(s)

\* the code after `await wsClient.connect(...)`, by caller; ok: the promise resolved
ConnectSettled(s, a, ok) ==
  LET origin == s.at[a].origin
      channel == GuardedSend(s, Frame("set_channel", origin, 0, 0)).s
      \* the catch blocks that call setStatus with the error; the reconnect of
      \* the resumeTranscriptionId effect only logs to the console
      shown == [s EXCEPT !.h.reported = @ \cup {a}]
  IN CASE origin \in {"mount", "model"} ->
            [(IF ok THEN channel ELSE shown) EXCEPT !.r.isLoadingModel = FALSE]
       [] origin = "effect" -> IF ok THEN channel ELSE s
       [] origin = "start" ->
            IF s.r.pc = "connect" /\ s.r.att = a
            THEN (IF ok THEN StartPoll(s) ELSE Abort(shown))
            ELSE (IF ok THEN s ELSE shown)
       [] OTHER -> s

\* the continuations of the attempts in `ids`, in the order the handlers were registered
RECURSIVE RunContinuations(_, _, _, _)
RunContinuations(s, ids, a, ok) ==
  IF a > MaxConn THEN s
  ELSE RunContinuations(IF a \in ids THEN ConnectSettled(s, a, ok) ELSE s, ids, a + 1, ok)

\* attempts whose one-time handlers are still registered
Listening(s) == {a \in ConnIds : s.at[a].handlers}

\* off(...), clearTimeout(timeoutId), resolve() or reject()
SettleAttempt(att, status) ==
  [att EXCEPT !.handlers = FALSE, !.timer = FALSE,
              !.status = IF @ = "pending" THEN status ELSE @]

\* _emit('model_ready'): every registered modelReadyHandler runs
EmitModelReady(s) ==
  LET ids == Listening(s)
      s1 == [s EXCEPT !.c.modelReady = (@ \/ ids # {}),
                      !.at = [a \in ConnIds |->
                                IF a \in ids THEN SettleAttempt(s.at[a], "resolved")
                                ELSE s.at[a]]]
  IN RunContinuations(s1, ids, 1, TRUE)

\* mutant: a 'status' message is taken as the proof of readiness
EmitAdvisory_AsReady(s, type) ==
  IF type = "status" THEN EmitModelReady(s)
  ELSE IF type = "processing_audio" THEN [s EXCEPT !.r.isProcessingAudio = TRUE]
  ELSE s

\* _emit of 'status', 'download_progress', 'processing_audio': the recorder's listeners
EmitAdvisory(s, type) ==
  IF type = "processing_audio" THEN [s EXCEPT !.r.isProcessingAudio = TRUE]
  ELSE s

\* mutant: handleError stops the recording
EmitError_Stops(s, aboutModel) ==
  LET ids == IF aboutModel THEN Listening(s) ELSE {}
      s1 == [s EXCEPT !.r.isProcessingAudio = s.r.isRecording,
                      !.r.isRecording = FALSE,
                      !.r.recState = IF s.r.isRecording /\ @ = "recording"
                                     THEN "stopping" ELSE @,
                      !.h.errors = @ + 1,
                      !.at = [a \in ConnIds |->
                                IF a \in ids THEN SettleAttempt(s.at[a], "rejected")
                                ELSE s.at[a]]]
  IN RunContinuations(s1, ids, 1, FALSE)

\* _emit('error', data): handleError (the status shows the error) and every
\* registered errorHandler
EmitError(s, aboutModel) ==
  LET ids == IF aboutModel THEN Listening(s) ELSE {}
      s1 == [s EXCEPT !.r.isProcessingAudio = FALSE,
                      !.h.errors = @ + 1,
                      !.h.reported = @ \cup ids,
                      !.at = [a \in ConnIds |->
                                IF a \in ids THEN SettleAttempt(s.at[a], "rejected")
                                ELSE s.at[a]]]
  IN RunContinuations(s1, ids, 1, FALSE)

\* ws.onerror of transport t
SocketError(s, t) ==
  LET pending == s.at[t].status = "pending"
      s1 == EmitError([s EXCEPT !.at[t] = SettleAttempt(@, "rejected"),
                                !.h.reported = IF pending THEN @ \cup {t} ELSE @], FALSE)
  IN IF pending THEN ConnectSettled(s1, t, FALSE) ELSE s1

\* mutant: the client reconnects by itself when a transport closes
SocketClose_Reconnects(s, t) ==
  LET s1 == [s EXCEPT !.tr[t] = [NoSocket EXCEPT !.state = "closed"],
                      !.c.isConnected = FALSE, !.h.disconnects = @ + 1]
  IN IF Created(s1) < MaxConn THEN Connect(s1, s1.c.selectedModel, "effect") ELSE s1

\* ws.onclose of transport t: isConnected = false, _emit('disconnect'); nothing is
\* read from a closed transport any more
SocketClose(s, t) ==
  [s EXCEPT !.tr[t] = [NoSocket EXCEPT !.state = "closed"], !.c.isConnected = FALSE,
            !.h.disconnects = @ + 1]

\* mutant: onopen sends nothing
SocketOpen_Silent(s, t) ==
  [s EXCEPT !.tr[t].state = "open", !.c.isConnected = TRUE]

\* ws.onopen of transport t
SocketOpen(s, t) ==
  RawSend([s EXCEPT !.tr[t].state = "open", !.c.isConnected = TRUE],
          Frame("set_model", "open", 0, 0)).s

\* ---------------------------------------------------------------------
\* AudioRecorder: effects and handlers
\* ---------------------------------------------------------------------
\* props the parent passes: resumeTranscriptionId and loadedAudioPath
Target(id, path) == [id |-> id, path |-> path]

NoTarget == Target("undefined", "undefined")

Targets == {NoTarget, Target("null", "null"), Target("A", "path"), Target("B", "path")}

\* a transcription id used as a condition: null and undefined are falsy
IsId(id) == id \notin {"null", "undefined"}

\* mutant: every change of the id is a change of context
ShouldReconnect_OnAnyChange(prevId, currentId) == prevId # currentId

\* the if / else-if chain of the resumeTranscriptionId effect
ShouldReconnect(prevId, currentId) ==
  \/ IsId(prevId) /\ currentId = "null"
  \/ IsId(prevId) /\ currentId = "undefined"
  \/ prevId # currentId /\ IsId(prevId) /\ IsId(currentId)

\* useEffect [resumeTranscriptionId, selectedModel, selectedChannel]
ResumeEffect(s, currentId) ==
  LET prevId == s.r.currentTranscriptionIdRef
      s1 == IF ShouldReconnect(prevId, currentId)
            THEN AddTimer(Disconnect([s EXCEPT !.r.audioUrl = FALSE]),
                          Timer("effect", 100, s.r.selectedModel, 0))
            ELSE s
  IN [s1 EXCEPT !.r.currentTranscriptionIdRef = currentId]

\* useEffect [loadedAudioPath]
PathEffect(s, path) == IF path = "null" THEN [s EXCEPT !.r.audioUrl = FALSE] ELSE s

CanConnect(s) == Created(s) < MaxConn

\* loadedAudioPath || audioUrl
HasAudioToResume(r) == r.target.path = "path" \/ r.audioUrl

\* the resume directive startRecording will send, from the values of the click's render
ResumeDirective(r) ==
  IF IsId(r.target.id) /\ HasAudioToResume(r) THEN "set_resume_transcription"
  ELSE IF HasAudioToResume(r) THEN "set_resume_audio"
  ELSE "none"

NoCtx == [resume |-> "none", fresh |-> FALSE, model |-> DefaultModel]

\* startRecording up to its first await
BeginStart(s) ==
  LET ctx == [resume |-> ResumeDirective(s.r), fresh |-> ~HasAudioToResume(s.r),
              model |-> s.r.selectedModel]
      s1 == [s EXCEPT !.r.isConnecting = TRUE, !.r.ctx = ctx, !.r.retries = 0,
                      !.r.recNo = @ + 1, !.h.startFrames = <<>>, !.h.recLog = <<>>,
                      !.h.startHad = [id |-> IsId(s.r.target.id),
                                      audio |-> HasAudioToResume(s.r)],
                      !.h.startCreated = Created(s)]
  IN IF ctx.fresh
     THEN AddTimer([Disconnect(s1) EXCEPT !.r.pc = "fresh"], Timer("fresh", 100, "", 0))
     ELSE StartConnect(s1)

\* mutant: both resume directives are sent when audio exists
SendResume_Both(s) ==
  LET a == GuardedSend(s, Frame("set_resume_transcription", "start", s.r.recNo, 0))
      b == GuardedSend(a.s, Frame("set_resume_audio", "start", s.r.recNo, 0))
  IN IF s.r.ctx.resume = "none" THEN [s EXCEPT !.r.pc = "media"]
     ELSE IF a.threw \/ b.threw THEN Abort(b.s)
     ELSE [b.s EXCEPT !.r.pc = "media"]

\* startRecording after the 200 ms wait: the resume directive, then getUserMedia
SendResume(s) ==
  LET sent == GuardedSend(s, Frame(s.r.ctx.resume, "start", s.r.recNo, 0))
  IN IF s.r.ctx.resume = "none" THEN [s EXCEPT !.r.pc = "media"]
     ELSE IF sent.threw THEN Abort(sent.s)
     ELSE [sent.s EXCEPT !.r.pc = "media"]

\* startRecording after getUserMedia: new MediaRecorder, start(3000), state updates
BeginCapture(s) ==
  [s EXCEPT !.r.recState = "recording", !.r.recOf = s.r.recNo, !.r.captured = 0,
            !.r.isRecording = TRUE, !.r.isConnecting = FALSE, !.r.pc = "idle",
            !.r.audioUrl = IF s.r.ctx.fresh THEN FALSE ELSE @]

\* mediaRecorder.ondataavailable: the chunk is kept and its conversion started
Capture(s) ==
  [s EXCEPT !.r.captured = @ + 1,
            !.r.pendingConv = @ \cup {[rec |-> s.r.recOf, idx |-> s.r.captured + 1]},
            !.h.capturedAfterError = @ \/ (s.h.errors > 0 /\ s.r.recState = "recording")]

\* the callback of a timer set by the recorder
TimerCallback(s, tmr) ==
  CASE tmr.kind = "effect" -> Connect(s, tmr.model, "effect")
    [] tmr.kind = "fresh" -> StartConnect(s)
    [] tmr.kind = "retry" -> StartPoll([s EXCEPT !.r.retries = @ + 1])
    [] tmr.kind = "wait200" -> SendResume(s)
    [] OTHER -> GuardedSend(s, Frame("end_recording", "stop", tmr.rec, 0)).s

\* may the callback call connect()
TimerConnects(s, tmr) ==
  \/ tmr.kind = "effect"
  \/ tmr.kind = "fresh" /\ ~Ready(s)

\* timers run in the order of their expiry: one set earlier with no longer delay runs first
Fireable(i) == \A j \in 1 .. (i - 1) : timers[j].dur > timers[i].dur

RemoveAt(seq, i) == SubSeq(seq, 1, i - 1) \o SubSeq(seq, i + 1, Len(seq))

\* most timers pending at once: the effect's, one of startRecording, one per stop
MaxTimers == MaxPending + MaxRec + 1

PendingEffects(s) == Cardinality({i \in 1 .. Len(s.tm) : s.tm[i].kind = "effect"})

\* the next state, with the history of what the received message `msg` did
SetSession(s, msg) ==
  LET rose == \/ ~wsClient.modelReady /\ s.c.modelReady
              \/ \E a \in ConnIds : attempts[a].status # "resolved"
                                    /\ s.at[a].status = "resolved"
      waiting == \E a \in ConnIds : attempts[a].status = "pending"
  IN /\ wsClient' = s.c
     /\ transports' = s.tr
     /\ attempts' = s.at
     /\ recorder' = s.r
     /\ timers' = s.tm
     /\ hist' = [s.h EXCEPT
                  !.readyWithoutSignal = @ \/ (rose /\ msg # "model_ready"),
                  !.advisoryWhilePending = @ \/ (waiting /\ msg \in Advisory)]
     /\ UNCHANGED notSession

Fault(s) == [s EXCEPT !.h.faults = @ + 1]

UserOp(s) == [s EXCEPT !.h.userOps = @ + 1]

MayAct == hist.userOps < MaxUser

InitSession ==
  /\ wsClient = [ws |-> 1, isConnected |-> FALSE, modelReady |-> FALSE,
                 selectedModel |-> DefaultModel]
  /\ transports = [t \in ConnIds |-> IF t = 1 THEN [NoSocket EXCEPT !.state = "connecting",
                                                                   !.asked = DefaultModel]
                                     ELSE NoSocket]
  /\ attempts = [a \in ConnIds |-> IF a = 1 THEN [origin |-> "mount", status |-> "pending",
                                                   handlers |-> TRUE, timer |-> TRUE]
                                   ELSE NoAttempt]
  /\ recorder = [isRecording |-> FALSE, isConnecting |-> FALSE, isLoadingModel |-> TRUE,
                 isProcessingAudio |-> FALSE, selectedModel |-> DefaultModel,
                 audioUrl |-> FALSE, target |-> NoTarget,
                 currentTranscriptionIdRef |-> "undefined", pc |-> "idle", att |-> 0,
                 retries |-> 0, ctx |-> NoCtx, recState |-> "inactive", recNo |-> 0,
                 recOf |-> 0, captured |-> 0, pendingConv |-> {}]
  /\ timers = <<>>
  /\ hist = [readyWithoutSignal |-> FALSE, advisoryWhilePending |-> FALSE,
             startFrames |-> <<>>, recLog |-> <<>>, audioDuringSwitch |-> FALSE,
             faults |-> 0, userOps |-> 0,
             startHad |-> [id |-> FALSE, audio |-> FALSE], disconnects |-> 0,
             reported |-> {}, startCreated |-> 0, freshReused |-> FALSE,
             timedOut |-> {}, audioBeforeReady |-> FALSE,
             errors |-> 0, capturedAfterError |-> FALSE, modelFailed |-> {}]

\* ---------------------------------------------------------------------
\* actions: the user, the parent component, timers, the recorder
\* ---------------------------------------------------------------------
\* the parent renders the recorder with another resume target
TargetChange(target) ==
  /\ MayAct
  /\ target # recorder.target
  /\ ~recorder.isRecording
  /\ PendingEffects(Session) < MaxPending
  /\ LET s0 == [Session EXCEPT !.r.target = target]
         s1 == IF target.id # recorder.target.id THEN ResumeEffect(s0, target.id) ELSE s0
         s2 == IF target.path # recorder.target.path THEN PathEffect(s1, target.path) ELSE s1
     IN SetSession(UserOp(s2), "")

\* handleModelChange(newModel)
ModelChange(newModel) ==
  /\ MayAct
  /\ newModel # recorder.selectedModel
  /\ ~recorder.isRecording /\ ~recorder.isConnecting /\ ~recorder.isLoadingModel
  /\ CanConnect(Session)
  /\ SetSession(UserOp(Connect(Disconnect([Session EXCEPT !.r.selectedModel = newModel,
                                                          !.r.isLoadingModel = TRUE]),
                               newModel, "model")), "")

\* handleChannelChange(newChannel)
ChannelChange ==
  /\ MayAct
  /\ ~recorder.isRecording /\ ~recorder.isConnecting /\ ~recorder.isLoadingModel
  /\ SetSession(UserOp(GuardedSend(Session, Frame("set_channel", "user", 0, 0)).s), "")

\* mutant: the button is also shown while a start is in progress
StartButton_WhileConnecting(r) ==
  ~r.isRecording /\ ~r.isProcessingAudio /\ ~r.isLoadingModel

\* the Start Recording button is rendered and enabled
StartButton(r) ==
  ~r.isRecording /\ ~r.isConnecting /\ ~r.isProcessingAudio /\ ~r.isLoadingModel

\* a click on the Start Recording button
StartClick ==
  /\ MayAct
  /\ StartButton(recorder)
  /\ recorder.recNo < MaxRec
  /\ HasAudioToResume(recorder) /\ ~Ready(Session) => CanConnect(Session)
  /\ SetSession(UserOp(BeginStart(Session)), "")

\* a setTimeout callback runs
TimerFires(i) ==
  /\ i <= Len(timers)
  /\ Fireable(i)
  /\ TimerConnects(Session, timers[i]) => CanConnect(Session)
  /\ SetSession(TimerCallback([Session EXCEPT !.tm = RemoveAt(@, i)], timers[i]), "")

\* getUserMedia resolves
MediaGranted ==
  /\ recorder.pc = "media"
  /\ SetSession(BeginCapture(Session), "")

\* getUserMedia rejects
MediaDenied ==
  /\ recorder.pc = "media"
  /\ hist.faults < MaxFaults
  /\ SetSession(Fault(Abort(Session)), "")

\* a 3 s timeslice of the MediaRecorder ends
ChunkCaptured ==
  /\ recorder.recState = "recording"
  /\ recorder.captured < MaxAudio - 1
  /\ SetSession(Capture(Session), "")

\* the Stop Recording button
StopClick ==
  /\ MayAct
  /\ recorder.isRecording
  /\ LET s1 == [Session EXCEPT !.r.isRecording = FALSE, !.r.isProcessingAudio = TRUE]
     IN SetSession(UserOp(IF recorder.recState # "inactive"
                          THEN [s1 EXCEPT !.r.recState = "stopping"]
                          ELSE GuardedSend(s1, Frame("end_recording", "stop",
                                                       recorder.recOf, 0)).s), "")

\* mediaRecorder.stop() completes: the final dataavailable, then onstop
RecorderStops(hasData) ==
  /\ recorder.recState = "stopping"
  /\ hasData => recorder.captured < MaxAudio
  /\ LET s1 == IF hasData THEN Capture(Session) ELSE Session
     IN SetSession(AddTimer([s1 EXCEPT !.r.recState = "inactive"],
                            Timer("settle", 100, "", recorder.recOf)), "")

\* event.data.arrayBuffer() resolves: wsClient.sendAudioChunk(buffer, duration)
ConversionDone(chunk) ==
  /\ chunk \in recorder.pendingConv
  /\ SetSession(GuardedSend([Session EXCEPT !.r.pendingConv = @ \ {chunk}],
                            Frame("audio_chunk", "recorder", chunk.rec, chunk.idx)).s, "")

\* ---------------------------------------------------------------------
\* actions: transports and the backend
\* ---------------------------------------------------------------------
TransportOpens(t) ==
  /\ transports[t].state = "connecting"
  /\ SetSession(SocketOpen(Session, t), "")

\* the connection fails: error event, then close event
TransportFails(t) ==
  /\ transports[t].state \in {"connecting", "open"}
  /\ hist.faults < MaxFaults
  /\ SetSession(Fault(SocketClose(SocketError(Session, t), t)), "")

\* the connection is lost without an error event
TransportLost(t) ==
  /\ transports[t].state = "open"
  /\ hist.faults < MaxFaults
  /\ SetSession(Fault(SocketClose(Session, t)), "")

\* the close started by ws.close() completes
TransportClosed(t) ==
  /\ transports[t].state = "closing"
  /\ SetSession(SocketClose(IF transports[t].failing THEN SocketError(Session, t)
                            ELSE Session, t), "")

\* the backend has loaded the model it was asked for on transport t
BackendModelReady(t) ==
  /\ transports[t].state = "open"
  /\ transports[t].gotSetModel /\ ~transports[t].readySent
  /\ SetSession(EmitModelReady([Session EXCEPT !.tr[t].readySent = TRUE]), "model_ready")

\* a 'status' (without audio_url), 'download_progress' or 'processing_audio' message
BackendAdvisory(t, type) ==
  /\ transports[t].state = "open"
  /\ type = "processing_audio" => transports[t].ended
  /\ SetSession(EmitAdvisory(Session, type), type)

\* the 'status' message that carries audio_url, after an end_recording
BackendAudioSaved(t) ==
  /\ transports[t].state = "open"
  /\ transports[t].ended
  /\ SetSession([EmitAdvisory(Session, "status") EXCEPT !.tr[t].ended = FALSE,
                                                        !.r.audioUrl = TRUE,
                                                        !.r.isProcessingAudio = FALSE],
                "status")

\* connect() calls that are waiting for model_ready
Awaiting == {a \in ConnIds : attempts[a].status = "pending"}

\* mutant: the errorHandler of connect() ignores every message
BackendError_Ignored(t, aboutModel) ==
  /\ transports[t].state = "open"
  /\ hist.faults < MaxFaults
  /\ SetSession(Fault([EmitError(Session, FALSE) EXCEPT
                        !.h.modelFailed = @ \cup (IF aboutModel THEN Awaiting ELSE {})]),
                "error")

\* an 'error' message of the backend; aboutModel: its text includes 'model'
BackendError(t, aboutModel) ==
  /\ transports[t].state = "open"
  /\ hist.faults < MaxFaults
  /\ SetSession(Fault([EmitError(Session, aboutModel) EXCEPT
                        !.h.modelFailed = @ \cup (IF aboutModel THEN Awaiting ELSE {})]),
                "error")

\* the 10 minute timeout of a connect() call
ConnectTimeout(a) ==
  /\ attempts[a].timer
  /\ hist.faults < MaxFaults
  /\ LET pending == attempts[a].status = "pending"
         s1 == [Session EXCEPT !.at[a] = SettleAttempt(@, "rejected"),
                               !.h.timedOut = @ \cup {a}]
     IN SetSession(Fault(IF pending THEN ConnectSettled(s1, a, FALSE) ELSE s1), "")

NextSession ==
  \/ \E target \in Targets : TargetChange(target)
  \/ \E newModel \in Models : ModelChange(newModel)
  \/ ChannelChange
  \/ StartClick
  \/ \E i \in 1 .. MaxTimers : TimerFires(i)
  \/ MediaGranted
  \/ MediaDenied
  \/ ChunkCaptured
  \/ StopClick
  \/ \E hasData \in BOOLEAN : RecorderStops(hasData)
  \/ \E rec \in 1 .. MaxRec, idx \in 1 .. MaxAudio : ConversionDone([rec |-> rec, idx |-> idx])
  \/ \E t \in ConnIds : TransportOpens(t)
  \/ \E t \in ConnIds : TransportFails(t)
  \/ \E t \in ConnIds : TransportLost(t)
  \/ \E t \in ConnIds : TransportClosed(t)
  \/ \E t \in ConnIds : BackendModelReady(t)
  \/ \E t \in ConnIds, type \in Advisory : BackendAdvisory(t, type)
  \/ \E t \in ConnIds : BackendAudioSaved(t)
  \/ \E t \in ConnIds, aboutModel \in BOOLEAN : BackendError(t, aboutModel)
  \/ \E a \in ConnIds : ConnectTimeout(a)

\* =====================================================================
\* Blocking review request (transcriptionAPI.aiReview)
\* =====================================================================
\* const chunkSize = contextWords || 4000
DefaultChunkSize == 4000

\* text.trim().split(/\s+/).length: the number of words of the text, 1 for an
\* empty text; small texts and texts around one and two default chunks
WordCounts ==
  (1 .. MaxWords) \cup {DefaultChunkSize - 1, DefaultChunkSize, DefaultChunkSize + 1,
                        2 * DefaultChunkSize, 2 * DefaultChunkSize + 1}

\* contextWords: 0 stands for null (the default of the parameter), otherwise the
\* caller's chunk size in words
ContextWords == 0 .. MaxContext

\* contextWords || 4000: null and 0 are falsy
ChunkSize(contextWords) == IF contextWords = 0 THEN DefaultChunkSize ELSE contextWords

\* Math.ceil(a / b) for positive integers
Ceil(a, b) == (a + b - 1) \div b

\* mutant: Math.floor instead of Math.ceil
TimeoutMs_Floor(wordCount, contextWords) ==
  LET numChunks == wordCount \div ChunkSize(contextWords) IN
  (60 + (numChunks * 30)) * 1000 + wordCount * 400

\* timeoutMs = (60 + (numChunks * 30) + (wordCount * 0.4)) * 1000.0, in whole
\* milliseconds
TimeoutMs(wordCount, contextWords) ==
  LET numChunks == Ceil(wordCount, ChunkSize(contextWords)) IN
  (60 + (numChunks * 30)) * 1000 + wordCount * 400

NoReviewCall == [status |-> "none", wordCount |-> 0, contextWords |-> 0, timeout |-> 0]

InitAiReview == reviewCall = NoReviewCall

\* aiReview(text, action, model, contextWords) up to the await of api.post
AiReview(wordCount, contextWords) ==
  /\ reviewCall.status # "pending"
  /\ reviewCall' = [status |-> "pending", wordCount |-> wordCount,
                    contextWords |-> contextWords,
                    timeout |-> TimeoutMs(wordCount, contextWords)]
  /\ UNCHANGED notAiReview

\* the response arrives within the timeout: return response.data
AiReviewResponse ==
  /\ reviewCall.status = "pending"
  /\ reviewCall' = [reviewCall EXCEPT !.status = "returned"]
  /\ UNCHANGED notAiReview

\* axios gives up after `timeout` ms: the awaited post rejects, aiReview throws
AiReviewTimeout ==
  /\ reviewCall.status = "pending"
  /\ reviewCall' = [reviewCall EXCEPT !.status = "thrown"]
  /\ UNCHANGED notAiReview

NextAiReview ==
  \/ \E wordCount \in WordCounts, contextWords \in ContextWords :
       AiReview(wordCount, contextWords)
  \/ AiReviewResponse
  \/ AiReviewTimeout

\* =====================================================================
\* Diff-tracked store: the tables of the schema and the write paths behind
\* POST, PATCH and DELETE /transcriptions
\* =====================================================================
Contents == {"a", "b"}
Titles == {"t1", "t2"}
Clients == 1 .. MaxClients
\* a NULL id or timestamp
NULL == 0

\* audio_file_path and duration_seconds travel together
NoAudio == [audio_file_path |-> "NULL", duration_seconds |-> 0]
FirstAudio == [audio_file_path |-> "rec1", duration_seconds |-> 1]
ConcatenatedAudio == [audio_file_path |-> "rec2", duration_seconds |-> 2]

\* mutant: the new path is sent without the new duration
UpdateData_PathOnly(content_md, proposedSummary, newAudio) ==
  [content_md |-> content_md, title |-> proposedSummary,
   audio |-> IF newAudio
             THEN [ConcatenatedAudio EXCEPT !.duration_seconds = NoAudio.duration_seconds]
             ELSE NoAudio]

\* updateData of handleConfirmSave: content_md, title and, when the recording
\* was resumed, the new audio path and duration
UpdateData(content_md, proposedSummary, newAudio) ==
  [content_md |-> content_md, title |-> proposedSummary,
   audio |-> IF newAudio THEN ConcatenatedAudio ELSE NoAudio]

\* SELECT * FROM transcriptions WHERE id = ?
HasRow(table, id) == \E row \in table : row.id = id
RowOf(table, id) == CHOOSE row \in table : row.id = id

\* SELECT * FROM transcription_diffs WHERE transcription_id = ?
DiffsOf(diffs, id) == {d \in diffs : d.transcription_id = id}

\* mutant: the constraint is missing from the table
UniqueTranscriptionSequence_Dropped(diffs, d) == TRUE

\* CONSTRAINT unique_transcription_sequence UNIQUE(transcription_id, sequence_number)
UniqueTranscriptionSequence(diffs, d) ==
  ~\E e \in diffs : /\ e.transcription_id = d.transcription_id
                    /\ e.sequence_number = d.sequence_number

\* transcription_id INTEGER NOT NULL REFERENCES transcriptions(id)
ReferencesTranscription(table, d) == HasRow(table, d.transcription_id)

\* mutant: the foreign key has no ON DELETE CASCADE
Cascade_Missing(diffs, id) == diffs

\* ON DELETE CASCADE: the diffs of a deleted row go with it
Cascade(diffs, id) == diffs \ DiffsOf(diffs, id)

\* mutant: the trigger stamps both timestamps
update_updated_at_column_Both(row, now) ==
  [row EXCEPT !.updated_at = now, !.created_at = now]

\* trigger update_transcriptions_updated_at: NEW.updated_at = NOW()
update_updated_at_column(row, now) == [row EXCEPT !.updated_at = now]

\* a patch turns the text it was computed from into the new text and applies to
\* nothing else
NoText == "conflict"

\* mutant: the patch is computed against the original text
ComputePatch_FromOriginal(row, content) == [from |-> row.content_md, to |-> content]

\* the patch between the materialized current content and the new content
ComputePatch(row, content) == [from |-> row.current_content_md, to |-> content]

ApplyPatch(text, patch) == IF text = patch.from THEN patch.to ELSE NoText

\* mutant: numbered from 0, by the count of the diffs stored so far
NextSequenceNumber_FromZero(diffs, id) == Cardinality(DiffsOf(diffs, id))

\* previous maximum + 1 for that transcription, 1 for the first diff
NextSequenceNumber(diffs, id) ==
  IF DiffsOf(diffs, id) = {} THEN 1
  ELSE 1 + (CHOOSE n \in {d.sequence_number : d \in DiffsOf(diffs, id)} :
              \A d \in DiffsOf(diffs, id) : d.sequence_number <= n)

\* history reconstruction: the diffs of the transcription applied to the
\* original content in sequence_number order
RECURSIVE ReplayFrom(_, _, _)
ReplayFrom(text, ds, n) ==
  IF \A d \in ds : d.sequence_number < n THEN text
  ELSE IF \E d \in ds : d.sequence_number = n
  THEN ReplayFrom(ApplyPatch(text, (CHOOSE d \in ds : d.sequence_number = n).diff_patch),
                  ds, n + 1)
  ELSE ReplayFrom(text, ds, n + 1)

Replay(row, diffs) == ReplayFrom(row.content_md, DiffsOf(diffs, row.id), 1)

NoRequest ==
  [pc |-> "idle", id |-> NULL, data |-> UpdateData("a", "t1", FALSE),
   sequence_number |-> NULL, diff_patch |-> [from |-> "a", to |-> "a"],
   result |-> "none", saveStatus |-> ""]

InitStore ==
  /\ transcriptions = {}
  /\ transcription_diffs = {}
  /\ deleted_transcriptions = {}
  /\ serial = [transcriptions |-> 0, transcription_diffs |-> 0, now |-> 1]
  /\ requests = [c \in Clients |-> NoRequest]
  /\ storeHist = [id \in 1 .. MaxTranscriptions |-> [content_md |-> "", created_at |-> NULL]]

\* POST /transcriptions with createData: the new row holds the text as original
\* and as current content and has no diff
CreateTranscription(content_md, proposedSummary, audio) ==
  /\ serial.transcriptions < MaxTranscriptions
  /\ LET id == serial.transcriptions + 1 IN
       /\ transcriptions' = transcriptions \cup
            {[id |-> id, created_at |-> serial.now, updated_at |-> serial.now,
              title |-> proposedSummary, content_md |-> content_md,
              current_content_md |-> content_md, current_diff_id |-> NULL,
              last_modified_at |-> NULL, audio |-> audio]}
       /\ storeHist' = [storeHist EXCEPT ![id] = [content_md |-> content_md,
                                                  created_at |-> serial.now]]
       /\ serial' = [serial EXCEPT !.transcriptions = id, !.now = @ + 1]
  /\ UNCHANGED <<transcription_diffs, deleted_transcriptions, requests>>
  /\ UNCHANGED notStore

\* PATCH /transcriptions/{id}, first half: the row is read, the patch and the
\* next sequence number are computed from what was read
UpdateRead(c, id, data) ==
  /\ requests[c].pc \in {"idle", "done"}
  /\ requests' = [requests EXCEPT ![c] =
       IF HasRow(transcriptions, id)
       THEN [pc |-> "write", id |-> id, data |-> data,
             sequence_number |-> NextSequenceNumber(transcription_diffs, id),
             diff_patch |-> ComputePatch(RowOf(transcriptions, id), data.content_md),
             result |-> "none", saveStatus |-> "Saving..."]
       ELSE [NoRequest EXCEPT !.pc = "answered", !.id = id,
                              !.result = "not found", !.saveStatus = "Saving..."]]
  /\ UNCHANGED <<transcriptions, transcription_diffs, deleted_transcriptions, serial,
                 storeHist>>
  /\ UNCHANGED notStore

\* the response of the request: the body of the request is gone with it
Answer(r, result) ==
  [NoRequest EXCEPT !.pc = "answered", !.id = r.id, !.sequence_number = r.sequence_number,
                    !.result = result, !.saveStatus = r.saveStatus]

\* the row after a stored diff: current content, current diff, modification
\* time, title and each audio field the request carries; the trigger runs on the
\* update
UpdatedRow(row, r, diffId, now) ==
  update_updated_at_column(
    [row EXCEPT !.current_content_md = r.data.content_md,
                !.current_diff_id = diffId,
                !.last_modified_at = now,
                !.title = r.data.title,
                !.audio.audio_file_path =
                   IF r.data.audio.audio_file_path = NoAudio.audio_file_path
                   THEN @ ELSE r.data.audio.audio_file_path,
                !.audio.duration_seconds =
                   IF r.data.audio.duration_seconds = NoAudio.duration_seconds
                   THEN @ ELSE r.data.audio.duration_seconds],
    now)

\* PATCH /transcriptions/{id}, second half, one transaction: the diff is
\* inserted and the row updated, or a constraint rejects the insert and
\* nothing is written
UpdateWrite(c) ==
  /\ requests[c].pc = "write"
  /\ LET r == requests[c]
         d == [id |-> serial.transcription_diffs + 1, transcription_id |-> r.id,
               diff_patch |-> r.diff_patch, created_at |-> serial.now,
               sequence_number |-> r.sequence_number]
     IN IF ~ReferencesTranscription(transcriptions, d)
        THEN /\ requests' = [requests EXCEPT ![c] = Answer(r, "not found")]
             /\ UNCHANGED <<transcriptions, transcription_diffs, serial>>
        ELSE IF ~UniqueTranscriptionSequence(transcription_diffs, d)
        THEN /\ requests' = [requests EXCEPT ![c] = Answer(r, "conflict")]
             /\ UNCHANGED <<transcriptions, transcription_diffs, serial>>
        ELSE /\ serial.transcription_diffs < MaxDiffs
             /\ transcription_diffs' = transcription_diffs \cup {d}
             /\ transcriptions' =
                  (transcriptions \ {RowOf(transcriptions, r.id)})
                    \cup {UpdatedRow(RowOf(transcriptions, r.id), r, d.id, serial.now)}
             /\ serial' = [serial EXCEPT !.transcription_diffs = d.id, !.now = @ + 1]
             /\ requests' = [requests EXCEPT ![c] = Answer(r, "ok")]
  /\ UNCHANGED <<deleted_transcriptions, storeHist>>
  /\ UNCHANGED notStore

\* handleConfirmSave after the await: 'Updated!', or the catch block
SaveAnswered(c) ==
  /\ requests[c].pc = "answered"
  /\ requests' = [requests EXCEPT ![c].pc = "done",
                                  ![c].saveStatus = IF requests[c].result = "ok"
                                                    THEN "Updated!" ELSE "Save failed"]
  /\ UNCHANGED <<transcriptions, transcription_diffs, deleted_transcriptions, serial,
                 storeHist>>
  /\ UNCHANGED notStore

\* DELETE /transcriptions/{id}: the row is copied to deleted_transcriptions and
\* removed from the live table, its diffs go by the cascade
SoftDelete(id) ==
  /\ HasRow(transcriptions, id)
  /\ LET row == RowOf(transcriptions, id) IN
       /\ deleted_transcriptions' = deleted_transcriptions \cup
            {[row |-> row, deleted_at |-> serial.now]}
       /\ transcriptions' = transcriptions \ {row}
  /\ transcription_diffs' = Cascade(transcription_diffs, id)
  /\ serial' = [serial EXCEPT !.now = @ + 1]
  /\ UNCHANGED <<requests, storeHist>>
  /\ UNCHANGED notStore

NextStore ==
  \/ \E content_md \in Contents, proposedSummary \in Titles, audio \in {NoAudio, FirstAudio} :
       CreateTranscription(content_md, proposedSummary, audio)
  \/ \E c \in Clients, id \in 1 .. MaxTranscriptions, content_md \in Contents,
        proposedSummary \in Titles, newAudio \in BOOLEAN :
       UpdateRead(c, id, UpdateData(content_md, proposedSummary, newAudio))
  \/ \E c \in Clients : UpdateWrite(c)
  \/ \E c \in Clients : SaveAnswered(c)
  \/ \E id \in 1 .. MaxTranscriptions : SoftDelete(id)

\* =====================================================================
\* Specifications
\* =====================================================================
\* the page after its first render
Init == InitReview /\ InitEditor /\ InitSession /\ InitAiReview /\ InitStore

\* one review job, from the request to the settled promise
SpecReview == Init /\ [][NextReview]_vars

\* the same job with the client's own scheduling: the read loop of processStream
\* takes what the channel holds (a pending reader.read() settles once bytes or
\* the end of the body are there). Nothing obliges the backend or the network
\* to write, to close or to fail.
SpecReviewStall ==
  /\ Init
  /\ [][NextReview]_vars
  /\ WF_vars(\E k \in 0 .. (3 * MaxWire), part \in BOOLEAN : ReadChunk(k, part))
  /\ WF_vars(ReadDone)

\* App and editor: results, selections and saves in any order
SpecEditor == Init /\ [][NextEditor]_vars

\* blocking review requests, one after the other
SpecAiReview == Init /\ [][NextAiReview]_vars

\* the store under creations, concurrent updates and deletions
SpecStore == Init /\ [][NextStore]_vars

\* one page session of the recorder: connections, recordings, target changes
Spec == Init /\ [][NextSession]_vars
\* =====================================================================
\* Properties
\* =====================================================================
\* the N 'progress' events with chunk_index 0..n-1 were each dispatched once
DeliveredOnce(n) == \A i \in ChunkIdx : progCount[i] = (IF i < n THEN 1 ELSE 0)

\* chunk0 + ' ' + chunk1 + ... + chunk(n-1), from the results the backend sent
RECURSIVE InIndexOrder(_)
InIndexOrder(n) ==
  IF n = 1 THEN lastRes[0] ELSE InIndexOrder(n - 1) \o <<Space>> \o lastRes[n - 1]

\* C2: when each of the progress events 0..N-1 was delivered once, in any
\* arrival order, and 'complete' follows, the promise resolves with the chunk
\* results joined in index order by single spaces.
C2_JoinInIndexOrder ==
  \A n \in 1 .. MaxChunks :
    (settledBy = "complete" /\ DeliveredOnce(n))
      => (outcome = "resolved" /\ resultText = InIndexOrder(n))

\* three chunks with different results arrived out of index order and the job completed
C2_Witness ==
  /\ settledBy = "complete"
  /\ DeliveredOnce(3)
  /\ outOfOrder
  /\ lastRes[0] # lastRes[1]
  /\ lastRes[1] # lastRes[2]

\* C8: a stream that ends without 'complete' or 'error' never resolves: the
\* outcome is an error, also when chunk results were recorded.
C8_EndWithoutCompleteRejects ==
  settledBy \in {"eof", "readfail"} => outcome = "rejected"

\* C9: a dispatched 'error' event rejects the promise with the backend's
\* message, returns no text, and ends the processing of events.
C9_ErrorTerminates ==
  settledBy = "error"
    => /\ outcome = "rejected"
       /\ rejectMsg = BackendErrorMessage
       /\ resultText = <<>>
       /\ rvPhase = "returned"
       /\ ~afterTerminal

\* an 'error' event was dispatched after chunk results had been recorded
C9_Witness ==
  /\ settledBy = "error"
  /\ \E i \in ChunkIdx : chunkResults[i].has


C10_RecoveryKeepsTextAndAppends ==
  recovered.done => (recovered.kept /\ recovered.appended)

\* ---------------------------------------------------------------------
\* C1: modelReady becomes true and a connect() promise resolves only in the
\* step that receives a 'model_ready' message; 'status', 'download_progress'
\* and 'processing_audio' messages never do either.
C1_ReadyOnlyOnModelReady == ~hist.readyWithoutSignal

C1_Witness ==
  /\ hist.advisoryWhilePending
  /\ wsClient.modelReady
  /\ \E a \in ConnIds : attempts[a].status = "resolved"

\* position of a frame type in the order of one start of recording
Rank(type) ==
  CASE type = "set_channel" -> 1
    [] type = "set_language" -> 2
    [] type \in ResumeTypes -> 3
    [] OTHER -> 4

\* ---------------------------------------------------------------------
\* C4: the frames one start of recording sends, followed by the first
\* audio_chunk of its recording, are in the order set_channel, set_language,
\* resume directive, audio_chunk.
C4_StartFramesOrdered ==
  \A i, j \in 1 .. Len(hist.startFrames) :
    i < j => Rank(hist.startFrames[i]) < Rank(hist.startFrames[j])

C4_Witness ==
  hist.startFrames = <<"set_channel", "set_language", "set_resume_transcription",
                       "audio_chunk">>

\* ---------------------------------------------------------------------
\* C5: end_recording is sent when no captured chunk of the recording is
\* still being converted, and no audio_chunk of the recording follows it.
C5_EndAfterAllChunks ==
  \A i \in 1 .. Len(hist.recLog) :
    hist.recLog[i] = 0 =>
      /\ \A j \in (i + 1) .. Len(hist.recLog) : hist.recLog[j] = 0
      /\ \A chunk \in recorder.pendingConv : chunk.rec # recorder.recNo

\* ---------------------------------------------------------------------
\* C6: no audio_chunk is sent while a reconnect started by a change of the
\* resume target is still waiting for its timer or for model_ready.
C6_CycleCompletesBeforeAudio == ~hist.audioDuringSwitch

\* ---------------------------------------------------------------------
\* C7: the step in which the tracked resume target goes from none (null or
\* undefined) to a transcript id leaves the client, its transports, its
\* connect attempts and the recorder's timers unchanged.
C7_AssignKeepsConnection ==
  [][(~IsId(recorder.currentTranscriptionIdRef) /\ IsId(recorder'.currentTranscriptionIdRef))
       => UNCHANGED <<wsClient, transports, attempts, timers>>]_vars

C7_Witness ==
  /\ recorder.currentTranscriptionIdRef = "A"
  /\ recorder.audioUrl
  /\ recorder.recNo = 1
  /\ Created(Session) = 2
  /\ wsClient.ws = 2
  /\ transports[2].state = "open"
  /\ Ready(Session)

\* ---------------------------------------------------------------------
\* the resume directives among the frames of the current start
ResumeFrames == SelectSeq(hist.startFrames, LAMBDA type : type \in ResumeTypes)

\* C11: one start of recording sends at most one resume directive:
\* set_resume_transcription when the start saw a transcript id and audio,
\* set_resume_audio when it saw audio without an id, and none when it saw no
\* audio to append to.
C11_OneResumeDirective ==
  /\ Len(ResumeFrames) <= 1
  /\ \A i \in 1 .. Len(ResumeFrames) :
        /\ hist.startHad.audio
        /\ ResumeFrames[i] = IF hist.startHad.id THEN "set_resume_transcription"
                             ELSE "set_resume_audio"

\* a second recording, started on the audio of the first one that has no id yet,
\* has sent set_resume_audio and is capturing
C11_Witness ==
  /\ ResumeFrames = <<"set_resume_audio">>
  /\ ~hist.startHad.id
  /\ recorder.recNo = 2
  /\ recorder.isRecording

\* ---------------------------------------------------------------------
\* C12: the audio chunks of one recording are sent in the order of their
\* capture, whatever the order in which their conversions complete.
C12_ChunksInCaptureOrder ==
  \A i, j \in 1 .. Len(hist.recLog) :
    (i < j /\ hist.recLog[i] # 0 /\ hist.recLog[j] # 0) => hist.recLog[i] < hist.recLog[j]

\* ---------------------------------------------------------------------
\* C13: no captured chunk is dropped: every chunk the recorder captured in the
\* current recording is either still to be sent or has been sent as audio_chunk.
C13_NoChunkDropped ==
  recorder.recOf = recorder.recNo =>
    \A idx \in 1 .. recorder.captured :
      \/ [rec |-> recorder.recOf, idx |-> idx] \in recorder.pendingConv
      \/ \E i \in 1 .. Len(hist.recLog) : hist.recLog[i] = idx

\* ---------------------------------------------------------------------
\* the client still points at a transport that was lost
Dead == wsClient.ws # NoTransport /\ transports[wsClient.ws].state = "closed"

\* C14: when an open transport is lost, the client is no longer connected, one
\* 'disconnect' is emitted, and the loss starts nothing: no transport is created,
\* no timer is set, no frame is sent; and as long as the client points at the lost
\* transport no frame is sent.
C14_LossSurfacedNotResumed ==
  [][/\ \A t \in ConnIds :
          (transports[t].state = "open" /\ transports'[t].state = "closed") =>
             /\ ~wsClient'.isConnected
             /\ hist'.disconnects = hist.disconnects + 1
             /\ wsClient'.ws = wsClient.ws
             /\ timers' = timers
             /\ \A u \in ConnIds \ {t} : transports'[u] = transports[u]
             /\ hist'.startFrames = hist.startFrames
             /\ hist'.recLog = hist.recLog
     /\ (Dead /\ wsClient'.ws = wsClient.ws) =>
             /\ Len(hist'.recLog) <= Len(hist.recLog)
             /\ Len(hist'.startFrames) <= Len(hist.startFrames)
             /\ \A u \in ConnIds : transports[u].state = "none" =>
                                      transports'[u].state = "none"]_vars

\* the transport of a running recording was lost and a chunk captured since then
\* found the client disconnected
C14_Witness ==
  /\ Dead
  /\ hist.disconnects >= 1
  /\ ~wsClient.isConnected
  /\ recorder.isRecording
  /\ recorder.recOf = recorder.recNo
  /\ \E idx \in 1 .. recorder.captured :
        /\ [rec |-> recorder.recOf, idx |-> idx] \notin recorder.pendingConv
        /\ \A i \in 1 .. Len(hist.recLog) : hist.recLog[i] # idx

\* ---------------------------------------------------------------------
\* C15: a connect that timed out has failed, and as long as no new connect was
\* requested the session is disconnected: the transport of the attempt is closed
\* and isConnected is false.
C15_TimeoutDisconnects ==
  \A a \in hist.timedOut :
    /\ attempts[a].status = "rejected"
    /\ wsClient.ws = a => /\ ~wsClient.isConnected
                          /\ transports[a].state \notin {"connecting", "open"}

\* ---------------------------------------------------------------------
\* C16: no audio_chunk is sent on a transport on which model_ready has not been
\* received.
C16_NoAudioBeforeReady == ~hist.audioBeforeReady

\* ---------------------------------------------------------------------
\* C17: the first frame sent on a transport is set_model with the model that was
\* passed to the connect() that created the transport, and the open transport the
\* client uses has been sent it.
C17_SetModelFirst ==
  \A t \in ConnIds :
    /\ transports[t].first # "none" =>
          /\ transports[t].first = "set_model"
          /\ transports[t].firstModel = transports[t].asked
    /\ (transports[t].state = "open" /\ wsClient.ws = t) =>
          transports[t].first = "set_model"

\* a transport created for another model than the default has got set_model for it
\* and then the frames of a start of recording
C17_Witness ==
  \E t \in ConnIds :
    /\ transports[t].state = "open"
    /\ transports[t].firstModel = "base"
    /\ transports[t].asked = "base"
    /\ wsClient.ws = t
    /\ Len(hist.startFrames) >= 2

\* ---------------------------------------------------------------------
\* C18: an error reported while a recording is in progress (handleError runs on a
\* transport error or on an 'error' message) leaves the recording as it is: still
\* recording, the MediaRecorder in the same state, no captured chunk discarded.
C18_ErrorKeepsRecording ==
  [][(recorder.isRecording /\ hist'.errors > hist.errors) =>
        /\ recorder'.isRecording
        /\ recorder'.recState = recorder.recState
        /\ recorder'.captured = recorder.captured
        /\ recorder'.pendingConv = recorder.pendingConv]_vars

\* an error was reported during a recording, and the recorder captured a chunk
\* after it while still recording
C18_Witness ==
  /\ hist.errors >= 1
  /\ hist.capturedAfterError
  /\ recorder.isRecording
  /\ recorder.recState = "recording"

\* ---------------------------------------------------------------------
\* C19: a connect() that was waiting for model_ready when the backend reported a
\* model error has failed and listens no more; as long as the client uses the
\* transport of that attempt it is not ready, whatever arrives on it later.
C19_ModelErrorFailsConnect ==
  \A a \in hist.modelFailed :
    /\ attempts[a].status = "rejected"
    /\ ~attempts[a].handlers
    /\ wsClient.ws = a => ~wsClient.modelReady

\* the connect of the current transport failed on a model error, and a model_ready
\* that arrived on the transport afterwards did not make the client ready
C19_Witness ==
  \E a \in hist.modelFailed :
    /\ wsClient.ws = a
    /\ transports[a].state = "open"
    /\ transports[a].readySent
    /\ ~wsClient.modelReady

\* ---------------------------------------------------------------------
\* C20: a start of recording is taken only when no recording is in progress and no
\* earlier start is still in progress: startRecording never begins while the
\* recorder records, connects, waits or asks for the microphone.
C20_NoStartWhileBusy ==
  [][recorder'.recNo # recorder.recNo =>
        /\ ~recorder.isRecording
        /\ ~recorder.isConnecting
        /\ recorder.pc = "idle"
        /\ recorder.recState # "recording"
        /\ \A i \in 1 .. Len(timers) : timers[i].kind \notin {"fresh", "retry", "wait200"}]_vars

\* a first recording is running on a ready connection, the user could still act,
\* and the start button is not available
C20_Witness ==
  /\ recorder.isRecording
  /\ recorder.recNo = 1
  /\ recorder.recNo < MaxRec
  /\ hist.userOps < MaxUser
  /\ Ready(Session)
  /\ ~StartButton(recorder)

\* ---------------------------------------------------------------------
\* C21: every final result without segments and without text left
\* transcriptionData finalized (final = true) with its text and segments
\* unchanged.
C21_EmptyFinalFinalizes ==
  finalNote.seen => (finalNote.finalized /\ finalNote.textKept)

\* an empty final result arrived after text had been accumulated in a recording
C21_Witness ==
  /\ finalNote.seen
  /\ transcriptionData.final
  /\ Len(transcriptionData.text) >= 3
  /\ Len(transcriptionData.segments) >= 2
  /\ isRecording

\* ---------------------------------------------------------------------
\* C22: the first text received in a recording on a loaded transcription is
\* appended to the end of the document: the document becomes what it was, a
\* space, and the text.
C22_FirstTextAppended ==
  [][(/\ isRecording
      /\ ~selectedTranscription.isNull
      /\ transcriptionData.isNull
      /\ ~transcriptionData'.isNull
      /\ Truthy(transcriptionData'.text))
       => doc' = doc \o <<Space>> \o transcriptionData'.text]_vars

\* C23: a 'progress' event whose chunk_index lies outside [0, total_chunks) is
\* a protocol violation: its result is not written into the result array and
\* the job ends rejected, with an error other than the one of a backend
\* 'error' event.
C23_OutOfRangeIsViolation ==
  progCount[TotalChunks] > 0 =>
    /\ ~chunkResults[TotalChunks].has
    /\ outcome = "rejected"
    /\ rejectMsg # BackendErrorMessage

\* C24: each result slot is written at most once: a slot that holds a result
\* keeps it, and a second 'progress' event for the slot ends the job rejected.
C24_SlotWrittenOnce ==
  [][\A i \in ChunkIdx :
       /\ chunkResults[i].has => chunkResults'[i] = chunkResults[i]
       /\ (progCount'[i] >= 2 /\ progCount[i] < 2) => outcome' = "rejected"]_vars

\* C25: the timeout of a review request is 60 s + 30 s x numChunks + 0.4 s x
\* wordCount, where numChunks is the least number of chunks of chunkSize words
\* that hold wordCount words and chunkSize is the caller's chunk size, or 4000
\* when it is omitted; of two successive requests with the same chunk size the
\* one with more words never has the smaller timeout.
C25_TimeoutFromText ==
  [][reviewCall'.status = "pending" =>
       LET w == reviewCall'.wordCount
           cs == IF reviewCall'.contextWords = 0 THEN 4000 ELSE reviewCall'.contextWords
       IN /\ \E n \in 1 .. w :
               /\ n * cs >= w
               /\ (n - 1) * cs < w
               /\ reviewCall'.timeout = 60000 + 30000 * n + 400 * w
          /\ (/\ reviewCall.status # "none"
              /\ reviewCall.contextWords = reviewCall'.contextWords
              /\ reviewCall.wordCount <= w)
               => reviewCall.timeout <= reviewCall'.timeout]_vars

C25_Witness ==
  /\ reviewCall.status = "pending"
  /\ reviewCall.contextWords = 2
  /\ reviewCall.wordCount = 5
  /\ reviewCall.timeout = 152000

\* C26: a review stream does not block its caller forever: once the response
\* is being read, the promise of aiReviewStream is eventually settled, also
\* when the backend sends no further event and does not close the channel.
C26_StallEndsWithError == (rvPhase = "streaming") ~> (outcome # "pending")

\* C27: for every stored transcript, replaying its diffs 1..N in sequence
\* number order against the original content yields exactly the current content.
C27_ReplayYieldsCurrent ==
  \A row \in transcriptions :
    Replay(row, transcription_diffs) = row.current_content_md

C27_Witness ==
  \E row \in transcriptions :
    /\ Cardinality(DiffsOf(transcription_diffs, row.id)) = 3
    /\ row.current_content_md # row.content_md
    /\ Replay(row, transcription_diffs) # NoText

\* C28: the sequence numbers of the diffs of one transcript are exactly 1..N,
\* each once, and current_diff_id is the id of the diff numbered N, NULL when the
\* transcript has no diff.
C28_SequenceGapless ==
  \A row \in transcriptions :
    LET ds == DiffsOf(transcription_diffs, row.id)
        N == Cardinality(ds)
    IN /\ {d.sequence_number : d \in ds} = 1 .. N
       /\ IF N = 0 THEN row.current_diff_id = NULL
          ELSE \E d \in ds : d.sequence_number = N /\ d.id = row.current_diff_id

C28_Witness ==
  \E row \in transcriptions :
    /\ {d.sequence_number : d \in DiffsOf(transcription_diffs, row.id)} = {1, 2, 3}
    /\ row.current_diff_id # NULL

\* C29: of two update requests that computed the same next sequence number for
\* the same transcript, the one written first is stored and the other is
\* rejected: no two diffs ever carry the same number, the rejected write leaves
\* the row and the diffs as they were, and the client shows the failure.
C29_OneWinsOneRejected ==
  [][/\ \A d, e \in transcription_diffs' :
          (d.transcription_id = e.transcription_id
             /\ d.sequence_number = e.sequence_number) => d = e
     /\ \A c \in Clients :
          (requests[c].pc = "write" /\ requests'[c].pc = "answered"
             /\ HasRow(transcriptions, requests[c].id)) =>
            IF \E d \in transcription_diffs :
                 /\ d.transcription_id = requests[c].id
                 /\ d.sequence_number = requests[c].sequence_number
            THEN /\ requests'[c].result = "conflict"
                 /\ transcriptions' = transcriptions
                 /\ transcription_diffs' = transcription_diffs
            ELSE /\ requests'[c].result = "ok"
                 /\ \E d \in transcription_diffs' \ transcription_diffs :
                      /\ d.transcription_id = requests[c].id
                      /\ d.sequence_number = requests[c].sequence_number
     /\ \A c \in Clients :
          (requests'[c].pc = "done" /\ requests'[c].result = "conflict") =>
            requests'[c].saveStatus = "Save failed"]_vars

C29_Witness ==
  \E c, d \in Clients :
    /\ c # d
    /\ requests[c].pc = "done" /\ requests[d].pc = "done"
    /\ requests[c].id = requests[d].id
    /\ requests[c].sequence_number = requests[d].sequence_number
    /\ requests[c].result = "ok" /\ requests[d].result = "conflict"
    /\ requests[d].saveStatus = "Save failed"

\* the row of an update request in the state before and after its write
StoredBy(c) ==
  /\ requests[c].pc = "write"
  /\ requests'[c].pc = "answered"
  /\ requests'[c].result = "ok"

\* C30 as stated: an update never changes content_md or created_at, and it
\* changes nothing but the diff chain, the current content, the current diff,
\* last_modified_at and, when provided, the audio path and duration.
C30_EditChangesOnlyChain ==
  [][\A c \in Clients : StoredBy(c) =>
       LET old == RowOf(transcriptions, requests[c].id)
           new == RowOf(transcriptions', requests[c].id)
       IN /\ new.content_md = old.content_md
          /\ new.created_at = old.created_at
          /\ new.title = old.title
          /\ new.updated_at = old.updated_at
          /\ requests[c].data.audio = NoAudio => new.audio = old.audio]_vars

\* C30 amended: an update never changes content_md or created_at, which stay
\* the text and the time of the creation; besides the diff chain, the current
\* content, the current diff and last_modified_at it sets the title sent with
\* it and updated_at, and the audio path and duration only when provided.
C30_EditKeepsOriginal ==
  [][/\ \A row \in transcriptions' :
          /\ row.content_md = storeHist'[row.id].content_md
          /\ row.created_at = storeHist'[row.id].created_at
     /\ \A c \in Clients : StoredBy(c) =>
          LET old == RowOf(transcriptions, requests[c].id)
              new == RowOf(transcriptions', requests[c].id)
          IN /\ new.content_md = old.content_md
             /\ new.created_at = old.created_at
             /\ new.id = old.id
             /\ new.title = requests[c].data.title
             /\ new.updated_at = new.last_modified_at
             /\ new.current_content_md = requests[c].data.content_md
             /\ new.audio = IF requests[c].data.audio = NoAudio THEN old.audio
                            ELSE requests[c].data.audio]_vars

C30_Witness ==
  \E row \in transcriptions :
    /\ Cardinality(DiffsOf(transcription_diffs, row.id)) >= 2
    /\ row.current_content_md # row.content_md
    /\ row.updated_at # row.created_at
    /\ row.audio = ConcatenatedAudio

\* C31: soft-deleting transcript k puts a row with id k into
\* deleted_transcriptions that holds the whole live row as it was and a non-null
\* deleted_at, removes the live row and all its diffs; every id ever assigned is
\* in exactly one of the two tables, once.
C31_SoftDeleteMoves ==
  [][/\ \A id \in 1 .. MaxTranscriptions :
          (HasRow(transcriptions, id) /\ ~HasRow(transcriptions', id)) =>
            /\ \E del \in deleted_transcriptions' :
                 /\ del.row = RowOf(transcriptions, id)
                 /\ del.deleted_at # NULL
            /\ DiffsOf(transcription_diffs', id) = {}
     /\ \A id \in 1 .. serial'.transcriptions :
          /\ HasRow(transcriptions', id)
               # (\E del \in deleted_transcriptions' : del.row.id = id)
          /\ Cardinality({del \in deleted_transcriptions' : del.row.id = id}) <= 1
          /\ Cardinality({row \in transcriptions' : row.id = id}) <= 1]_vars

C31_Witness ==
  /\ transcriptions = {}
  /\ transcription_diffs = {}
  /\ \E del \in deleted_transcriptions :
       /\ del.row.current_diff_id = 2
       /\ del.row.current_content_md # del.row.content_md
       /\ del.row.audio = ConcatenatedAudio
       /\ del.deleted_at > del.row.last_modified_at

C33_ReadyAfterAcknowledgement ==
  [][(recorder.isProcessingAudio /\ ~recorder'.isProcessingAudio) =>
       /\ recorder'.audioUrl
       /\ \E t \in ConnIds : transports[t].ended /\ ~transports'[t].ended]_vars

\* C34: every connect() call that failed, by a transport error, by a model
\* error or by the readiness timeout, was shown to the user as a status message.
C34_FailuresReported ==
  \A a \in ConnIds : attempts[a].status = "rejected" => a \in hist.reported

\* C35: isConnected is true exactly when the client's current transport
\* (this.ws) is open.
C35_ConnectedIffCurrentOpen ==
  wsClient.isConnected
    = (wsClient.ws # NoTransport /\ transports[wsClient.ws].state = "open")

\* C36: a connect() call resolves only in the step in which model_ready is
\* received on the transport that call opened, and the one-time handlers and
\* the timeout of a call are gone once its transport was closed or replaced.
C36_ResolvedByOwnTransport ==
  [][\A a \in ConnIds :
       /\ (attempts[a].status = "pending" /\ attempts'[a].status = "resolved") =>
            (~transports[a].readySent /\ transports'[a].readySent)
       /\ transports'[a].state \in {"closing", "closed"} =>
            (~attempts'[a].handlers /\ ~attempts'[a].timer)]_vars

\* C37: at most one transport of the client is open or opening at any time.
C37_OneLiveTransport ==
  Cardinality({t \in ConnIds : transports[t].state \in {"connecting", "open"}}) <= 1

\* the 'data:' lines of progress events with chunk_index i among these lines
RECURSIVE ProgressLines(_, _)
ProgressLines(lines, i) ==
  IF lines = <<>> THEN 0
  ELSE (IF Head(lines).k = "data" /\ Head(lines).ev.type = "progress"
             /\ Head(lines).ev.chunk_index = i
        THEN 1 ELSE 0) + ProgressLines(Tail(lines), i)

\* C38: every complete event is processed exactly once however the stream is
\* split into reads: a read after which the stream is still being processed
\* dispatched every progress event whose 'data:' line it completed, and
\* completed the 'data:' line of no 'complete' or 'error' event.
C38_EveryEventProcessedOnce ==
  [][(rvPhase = "streaming" /\ rvPhase' = "streaming" /\ Len(wire') < Len(wire)) =>
       LET read == SubSeq(wire, 1, Len(wire) - Len(wire')) IN
         /\ \A i \in ChunkIdx :
              progCount'[i] = Cap2(progCount[i] + ProgressLines(read, i))
         /\ \A j \in 1 .. Len(read) :
              read[j].k = "data" => read[j].ev.type \notin {"complete", "error"}]_vars

\* C39: the promise resolves on 'complete' only when a result was recorded
\* for every index 0 .. total_chunks - 1 of the job, so that the resolved
\* text has no missing chunk replaced by an empty part.
C39_CompleteNeedsEveryChunk ==
  (outcome = "resolved" /\ settledBy = "complete")
    => \A i \in 0 .. (TotalChunks - 1) : chunkResults[i].has

\* C40: a recording started with no audio to resume runs on a fresh
\* connection: each of its audio chunks is sent on a transport created after
\* the start, on which the backend has sent model_ready.
C40_FreshRecordingOnFreshConnection == ~hist.freshReused
====
